---- MODULE Spec2Model ----
(***************************************************************************)
(* A model of LaTexTokenizer.py: the scanner LATEX_PATTERN, the classifier *)
(* get_token_type, the argument expander tokenize_content, the block       *)
(* tracker tokenize_latex, consolidate_text_tokens, split_text_block and   *)
(* the pass of translate_latex_document.                                   *)
(*                                                                         *)
(* A document is a sequence of one-character strings.  Offsets are the     *)
(* 0-based offsets of the Python code; At(s, i) reads the character at     *)
(* offset i.  A token's value is the sequence of its characters.           *)
(***************************************************************************)
EXTENDS Integers, Sequences, FiniteSets, TLC

\* The number of snippets an input document is put together from.
MaxPieces == 4

----------------------------------------------------------------------------
\* Characters and strings

LowerLetters == <<"a", "b", "c", "d", "e", "f", "g", "h", "i", "j", "k", "l", "m", "n", "o", "p", "q", "r", "s", "t", "u", "v", "w", "x", "y", "z">>

UpperLetters == <<"A", "B", "C", "D", "E", "F", "G", "H", "I", "J", "K", "L", "M", "N", "O", "P", "Q", "R", "S", "T", "U", "V", "W", "X", "Y", "Z">>

Range(f) == {f[x] : x \in DOMAIN f}

\* [a-zA-Z]
Letters == Range(LowerLetters) \cup Range(UpperLetters)

Digits == {"0", "1", "2", "3", "4", "5", "6", "7", "8", "9"}

\* \s, and what str.isspace and str.strip take for white space (ASCII part)
SpaceChars == {" ", "\t", "\n", "\r", "\f"}

\* The character class that "\\[" opens in the verbose pattern: the text from
\* "[" on line 16 up to the first "]", which is the one of "[^\n]" on line 18.
MathClass == {" ", "#", "S", "t", "a", "r", "o", "f", "m", "h", "b", "l", "c", "k", "\n", "|", "$", "?", "M", "d", "e", "(", "i", "n", "s", "p", "y", ")", "%", "[", "^"}

\* The characters [^\\{}\[\]$%&\s] leaves out
PlainExcluded == {"\\", "{", "}", "[", "]", "$", "%", "&"} \cup SpaceChars

At(s, i) == s[i + 1]

\* s[i:j] of Python, for 0 <= i and j <= len(s)
Slice(s, i, j) == IF j <= i THEN << >> ELSE SubSeq(s, i + 1, j)

\* s.startswith(p, i)
StartsWithAt(s, i, p) ==
    /\ i + Len(p) <= Len(s)
    /\ \A k \in 1..Len(p) : s[i + k] = p[k]

StartsWith(s, p) == StartsWithAt(s, 0, p)

\* p in s, for strings
Contains(s, p) == \E i \in 0..(Len(s) - Len(p)) : StartsWithAt(s, i, p)

\* s.find(c) for a character c that s holds
Find(s, c) == CHOOSE i \in 0..(Len(s) - 1) : At(s, i) = c /\ \A k \in 0..(i - 1) : At(s, k) # c

\* s.count(c)
Count(s, c) == Cardinality({i \in 1..Len(s) : s[i] = c})

\* The end of the greedy run, from offset i, of characters in S
RECURSIVE RunEnd(_, _, _)
RunEnd(s, i, S) == IF i < Len(s) /\ At(s, i) \in S THEN RunEnd(s, i + 1, S) ELSE i

\* The end of the greedy run, from offset i, of characters not in S
RECURSIVE RunEndNot(_, _, _)
RunEndNot(s, i, S) == IF i < Len(s) /\ At(s, i) \notin S THEN RunEndNot(s, i + 1, S) ELSE i

----------------------------------------------------------------------------
\* LATEX_PATTERN: each alternative gives the end of its match at offset p, or
\* NoMatch.  The alternatives are tried in the order written; nothing follows
\* the group, so the first alternative that matches decides.

NoMatch == -1

KwBegin == <<"\\", "b", "e", "g", "i", "n">>

KwEnd == <<"\\", "e", "n", "d">>

\* \\(begin|end)\{[^}]+\}
AltEnvironment(s, p) ==
    LET k == IF StartsWithAt(s, p, KwBegin) THEN p + Len(KwBegin)
             ELSE IF StartsWithAt(s, p, KwEnd) THEN p + Len(KwEnd)
             ELSE NoMatch
    IN  IF k = NoMatch \/ k >= Len(s) \/ At(s, k) # "{" THEN NoMatch
        ELSE LET j == RunEndNot(s, k + 1, {"}"})
             IN  IF j > k + 1 /\ j < Len(s) THEN j + 1 ELSE NoMatch

\* (\[[^\]]*\])? at offset b: the end of the group, b when it matches nothing
OptBracket(s, b) ==
    IF b < Len(s) /\ At(s, b) = "["
    THEN LET j == RunEndNot(s, b + 1, {"]"})
         IN  IF j < Len(s) THEN j + 1 ELSE b
    ELSE b

\* (?:[^{}]|\{[^{}]*\})*\} from offset i, inside the outer brace: the end of the
\* closing brace, or NoMatch
RECURSIVE BraceBody(_, _)
BraceBody(s, i) ==
    IF i >= Len(s) THEN NoMatch
    ELSE IF At(s, i) = "}" THEN i + 1
    ELSE IF At(s, i) = "{"
         THEN LET j == RunEndNot(s, i + 1, {"{", "}"})
              IN  IF j < Len(s) /\ At(s, j) = "}" THEN BraceBody(s, j + 1) ELSE NoMatch
    ELSE BraceBody(s, i + 1)

\* (\{(?:[^{}]|\{[^{}]*\})*\})? at offset c
OptBrace(s, c) ==
    IF c < Len(s) /\ At(s, c) = "{"
    THEN LET j == BraceBody(s, c + 1) IN IF j = NoMatch THEN c ELSE j
    ELSE c

\* \\([a-zA-Z]+)(\*)?(\[[^\]]*\])?(\{...\})?
AltCommand(s, p) ==
    IF At(s, p) # "\\" THEN NoMatch
    ELSE LET a == RunEnd(s, p + 1, Letters)
             b == IF a < Len(s) /\ At(s, a) = "*" THEN a + 1 ELSE a
         IN  IF a = p + 1 THEN NoMatch ELSE OptBrace(s, OptBracket(s, b))

\* \{|\}|\[|\]
AltBracket(s, p) == IF At(s, p) \in {"{", "}", "[", "]"} THEN p + 1 ELSE NoMatch

\* \\[ ... ]* : a backslash and a run of the characters of MathClass
AltMathClass(s, p) == IF At(s, p) = "\\" THEN RunEnd(s, p + 1, MathClass) ELSE NoMatch

\* \\.
AltEscaped(s, p) ==
    IF At(s, p) = "\\" /\ p + 1 < Len(s) /\ At(s, p + 1) # "\n" THEN p + 2 ELSE NoMatch

\* &
AltAmpersand(s, p) == IF At(s, p) = "&" THEN p + 1 ELSE NoMatch

\* \\\\
AltRowSeparator(s, p) == IF StartsWithAt(s, p, <<"\\", "\\">>) THEN p + 2 ELSE NoMatch

\* [ \t]+
AltWhitespace(s, p) == IF At(s, p) \in {" ", "\t"} THEN RunEnd(s, p, {" ", "\t"}) ELSE NoMatch

\* \n+
AltNewlines(s, p) == IF At(s, p) = "\n" THEN RunEnd(s, p, {"\n"}) ELSE NoMatch

\* [^\\{}\[\]$%&\s]+
AltPlain(s, p) == IF At(s, p) \notin PlainExcluded THEN RunEndNot(s, p, PlainExcluded) ELSE NoMatch

\* The k-th alternative of the pattern, in the order written
Alternative(k, s, p) ==
    CASE k = 1 -> AltEnvironment(s, p)
      [] k = 2 -> AltCommand(s, p)
      [] k = 3 -> AltBracket(s, p)
      [] k = 4 -> AltMathClass(s, p)
      [] k = 5 -> AltEscaped(s, p)
      [] k = 6 -> AltAmpersand(s, p)
      [] k = 7 -> AltRowSeparator(s, p)
      [] k = 8 -> AltWhitespace(s, p)
      [] k = 9 -> AltNewlines(s, p)
      [] OTHER -> AltPlain(s, p)

NumAlternatives == 10

RECURSIVE FirstAlternative(_, _, _)
FirstAlternative(k, s, p) ==
    IF k > NumAlternatives THEN NoMatch
    ELSE LET e == Alternative(k, s, p)
         IN  IF e # NoMatch THEN e ELSE FirstAlternative(k + 1, s, p)

\* LATEX_PATTERN.match(s, p): the end of the match at offset p < len(s), or NoMatch
MatchEnd(s, p) == FirstAlternative(1, s, p)

----------------------------------------------------------------------------
\* get_token_type

StructurePrefixes ==
    { <<"\\", "c", "h", "a", "p", "t", "e", "r">>,
      <<"\\", "s", "e", "c", "t", "i", "o", "n">>,
      <<"\\", "s", "u", "b", "s", "e", "c", "t", "i", "o", "n">>,
      <<"\\", "s", "u", "b", "s", "u", "b", "s", "e", "c", "t", "i", "o", "n">>,
      <<"\\", "p", "a", "r", "a", "g", "r", "a", "p", "h">>,
      <<"\\", "s", "u", "b", "p", "a", "r", "a", "g", "r", "a", "p", "h">>,
      <<"\\", "e", "m", "p", "h">>,
      <<"\\", "t", "e", "x", "t", "b", "f">>,
      <<"\\", "n", "o", "t", "e">> }

DefinePrefixes ==
    { <<"\\", "n", "e", "w", "c", "o", "m", "m", "a", "n", "d">>,
      <<"\\", "r", "e", "n", "e", "w", "c", "o", "m", "m", "a", "n", "d">>,
      <<"\\", "d", "e", "f">> }

FileExtensions ==
    { <<"t", "e", "x">>, <<"e", "p", "s">>, <<"p", "d", "f">>, <<"p", "n", "g">>,
      <<"j", "p", "g">>, <<"j", "p", "e", "g">> }

\* c.lower(), for the letters of the extensions
Lower(c) ==
    IF \E k \in DOMAIN UpperLetters : UpperLetters[k] = c
    THEN LowerLetters[CHOOSE k \in DOMAIN UpperLetters : UpperLetters[k] = c]
    ELSE c

\* [\w\-./\\]
PathChars == Letters \cup Digits \cup {"_", "-", ".", "/", "\\"}

\* token is [\w\-./\\]+ then "." then one of the extensions, in any case
PathWithExtension(token) ==
    \E ext \in FileExtensions :
        LET d == Len(token) - Len(ext) - 1
        IN  /\ d >= 1
            /\ At(token, d) = "."
            /\ \A k \in 1..Len(ext) : Lower(token[d + 1 + k]) = ext[k]
            /\ \A k \in 1..d : token[k] \in PathChars

\* "$" of the pattern matches at the end and before a newline that ends the string
is_filepath_or_filename(token) ==
    \/ PathWithExtension(token)
    \/ /\ Len(token) > 0
       /\ token[Len(token)] = "\n"
       /\ PathWithExtension(Slice(token, 0, Len(token) - 1))

is_punctuation(token) ==
    Len(token) = 1 /\ token[1] \in {".", ",", ";", ":", "!", "?", "(", ")", "-"}

is_latex_command(token) ==
    /\ StartsWith(token, <<"\\">>)
    /\ ~StartsWith(token, KwBegin)
    /\ ~StartsWith(token, KwEnd)

\* token.isspace()
IsSpace(token) == Len(token) > 0 /\ \A k \in 1..Len(token) : token[k] \in SpaceChars

\* re.match(r'[a-zA-Z0-9:_-]+', token)
ReferenceStart(token) ==
    Len(token) > 0 /\ token[1] \in Letters \cup Digits \cup {":", "_", "-"}

get_token_type(token) ==
    IF StartsWith(token, KwBegin) \/ StartsWith(token, KwEnd) THEN "environment"
    ELSE IF \E q \in StructurePrefixes : StartsWith(token, q) THEN "structure"
    ELSE IF \E q \in DefinePrefixes : StartsWith(token, q) THEN "define"
    ELSE IF is_latex_command(token) THEN "command"
    ELSE IF token \in {<<"{">>, <<"}">>, <<"[">>, <<"]">>} THEN "bracket"
    ELSE IF token \in {<<"\\", "[">>, <<"\\", "]">>, <<"$">>, <<"$", "$">>} THEN "math"
    ELSE IF token \in {<<"&">>, <<"\\", "\\">>} THEN "table_separator"
    ELSE IF StartsWith(token, <<"%">>) THEN "comment"
    ELSE IF IsSpace(token) THEN (IF Count(token, "\n") = 0 THEN "whitespace" ELSE "newline")
    ELSE IF is_filepath_or_filename(token) THEN "filepath"
    ELSE IF ReferenceStart(token) /\ Count(token, ":") > 0 THEN "reference"
    ELSE IF is_punctuation(token) THEN "punctuation"
    ELSE IF \E k \in 1..Len(token) : token[k] \notin SpaceChars THEN "text"
    ELSE "whitespace"

----------------------------------------------------------------------------
\* tokenize_content

\* One token dictionary, as every tokens.append of tokenize_content builds it
Token(type, value, line, from, to) ==
    [type |-> type, value |-> value, line |-> line, position |-> <<from, to>>,
     multiline |-> FALSE, block |-> 0]

\* LATEX_PATTERN.finditer(content), from offset pos on: the matches <<from, to>>
\* in order; the scan steps over a character at which nothing matches.
RECURSIVE FindFrom(_, _)
FindFrom(content, pos) ==
    IF pos >= Len(content) THEN << >>
    ELSE LET e == MatchEnd(content, pos)
         IN  IF e = NoMatch THEN FindFrom(content, pos + 1)
             ELSE << <<pos, e>> >> \o FindFrom(content, e)

finditer(content) == FindFrom(content, 0)

\* The body of the loop of tokenize_content for the matches from the k-th on
\* (lines 70-137); the call of line 107 starts a loop of its own, on the
\* argument's interior, with its own line counter.
RECURSIVE TokenizeMatches(_, _, _, _, _)
TokenizeMatches(content, matches, k, line, start) ==
    IF k > Len(matches) THEN << >>
    ELSE
      LET token == Slice(content, matches[k][1], matches[k][2])
          token_start == start + matches[k][1]
          token_end == start + matches[k][2]
          token_type == get_token_type(token)
          emitted ==
            IF token_type \in {"structure", "command"} /\ Count(token, "{") > 0
            THEN LET command_end == Find(token, "{")
                     inner_content == Slice(token, command_end + 1, Len(token) - 1)
                 IN  << Token(token_type, Slice(token, 0, command_end), line,
                              token_start, token_start + command_end),
                        Token("bracket", <<"{">>, line,
                              token_start + command_end, token_start + command_end + 1) >>
                     \o TokenizeMatches(inner_content, finditer(inner_content), 1, line,
                                        token_start + command_end + 1)
                     \o << Token("bracket", <<"}">>, line, token_end - 1, token_end) >>
            ELSE << Token(token_type, token, line, token_start, token_end) >>
          next_line == IF token_type = "newline" THEN line + Count(token, "\n") ELSE line
      IN  emitted \o TokenizeMatches(content, matches, k + 1, next_line, start)

tokenize_content(content, line, start) ==
    TokenizeMatches(content, finditer(content), 1, line, start)

\* detokenize_latex
RECURSIVE detokenize_latex(_)
detokenize_latex(toks) ==
    IF toks = << >> THEN << >> ELSE Head(toks).value \o detokenize_latex(Tail(toks))

----------------------------------------------------------------------------
\* consolidate_text_tokens

Last(q) == q[Len(q)]

Front(q) == SubSeq(q, 1, Len(q) - 1)

\* ' '.join(values)
RECURSIVE JoinSpace(_)
JoinSpace(values) ==
    IF values = << >> THEN << >>
    ELSE IF Len(values) = 1 THEN values[1]
    ELSE values[1] \o <<" ">> \o JoinSpace(Tail(values))

\* ''.join(values)
RECURSIVE JoinBare(_)
JoinBare(values) ==
    IF values = << >> THEN << >> ELSE values[1] \o JoinBare(Tail(values))

\* TextBlock with ''.join in place of ' '.join
TextBlockJoinedBare(current_text, current_line, current_text_start, to, block) ==
    [type |-> "text_block", value |-> JoinBare(current_text), line |-> current_line,
     position |-> <<current_text_start, to>>, multiline |-> FALSE, block |-> block]

\* The text_block dictionary of lines 180-187 and 192-199
TextBlock(current_text, current_line, current_text_start, to, block) ==
    [type |-> "text_block", value |-> JoinSpace(current_text), line |-> current_line,
     position |-> <<current_text_start, to>>, multiline |-> FALSE, block |-> block]

\* current_text_start and current_line before the first text token
None == "None"

\* The loop of consolidate_text_tokens from the k-th token on, and the flush
\* after it
RECURSIVE ConsolidateFrom(_, _, _, _, _)
ConsolidateFrom(toks, k, current_text, current_text_start, current_line) ==
    IF k > Len(toks)
    THEN IF current_text # << >>
         THEN << TextBlock(current_text, current_line, current_text_start,
                           Last(toks).position[2], Last(toks).block) >>
         ELSE << >>
    ELSE LET token == toks[k]
         IN  IF token.type = "text"
             THEN ConsolidateFrom(toks, k + 1, Append(current_text, token.value),
                      IF current_text = << >> THEN token.position[1] ELSE current_text_start,
                      IF current_text = << >> THEN token.line ELSE current_line)
             ELSE (IF current_text # << >>
                   THEN << TextBlock(current_text, current_line, current_text_start,
                                     token.position[1], token.block) >>
                   ELSE << >>)
                  \o << token >>
                  \o ConsolidateFrom(toks, k + 1, << >>, current_text_start, current_line)

consolidate_text_tokens(toks) == ConsolidateFrom(toks, 1, << >>, None, None)

----------------------------------------------------------------------------
\* mock_translate, split_text_block

mock_translate(txt) == txt \o <<" ", "(", "o", "v", "e", "r", "s", "a", "t", "t", ")">>

\* s.split(): the maximal runs of characters that are not white space, from
\* offset i on
RECURSIVE WordsFrom(_, _)
WordsFrom(s, i) ==
    LET a == RunEnd(s, i, SpaceChars)
        b == RunEndNot(s, a, SpaceChars)
    IN  IF a >= Len(s) THEN << >> ELSE << Slice(s, a, b) >> \o WordsFrom(s, b)

Words(s) == WordsFrom(s, 0)

\* s.strip()
Strip(s) ==
    LET a == RunEnd(s, 0, SpaceChars)
        ends == {b \in a..Len(s) : \A k \in b..(Len(s) - 1) : At(s, k) \in SpaceChars}
    IN  IF a >= Len(s) THEN << >>
        ELSE Slice(s, a, CHOOSE b \in ends : \A c \in ends : b <= c)

split_text_block(original, translated) ==
    LET original_words == Words(original)
        translated_words == Words(translated)
    IN  IF Len(original_words) = Len(translated_words)
        THEN translated_words
        ELSE << translated >>

\* The tokens the loop of lines 232-242 appends for the words split_text, the
\* first of them at offset start
RECURSIVE WordTokens(_, _, _)
WordTokens(split_text, start, token) ==
    IF split_text = << >> THEN << >>
    ELSE LET word == Head(split_text)
         IN  << [type |-> "text", value |-> word, line |-> token.line,
                 position |-> <<start, start + Len(word)>>, multiline |-> FALSE,
                 block |-> token.block] >>
             \o WordTokens(Tail(split_text), start + Len(word) + 1, token)

----------------------------------------------------------------------------
\* The input documents: every concatenation of at most MaxPieces snippets.
\* The snippets put together give environments, balanced and not; a command
\* with an open, a closed and a nested braced argument and with a bracketed
\* parameter; stray closing braces and brackets; "$", which no alternative of
\* the pattern matches; newlines, inside arguments and outside; plain text.

Pieces ==
    { <<"\\", "b", "e", "g", "i", "n", "{", "t", "a", "b", "l", "e", "}">>,
      <<"\\", "e", "n", "d", "{", "t", "a", "b", "l", "e", "}">>,
      <<"\\", "a", "{">>,
      <<"\\", "a", "[">>,
      <<"}">>,
      <<"]">>,
      <<"$">>,
      <<"\n">>,
      <<"x">> }

\* The snippets of the documents about table environments
TablePieces ==
    { <<"\\", "b", "e", "g", "i", "n", "{", "t", "a", "b", "l", "e", "}">>,
      <<"\\", "b", "e", "g", "i", "n", "{", "t", "a", "b", "u", "l", "a", "r", "}">>,
      <<"\\", "e", "n", "d", "{", "t", "a", "b", "u", "l", "a", "r", "}">>,
      <<"\\", "e", "n", "d", "{", "t", "a", "b", "l", "e", "}">>,
      <<"x">> }

RECURSIVE Documents(_, _)
Documents(pieces, n) ==
    IF n = 0 THEN {<< >>}
    ELSE LET shorter == Documents(pieces, n - 1)
         IN  shorter \cup {d \o q : d \in shorter, q \in pieces}

----------------------------------------------------------------------------
\* translate_latex_document(text): tokenize_latex (the call of
\* tokenize_content, then the tracker's loop), consolidate_text_tokens, the
\* translation loop, detokenize_latex.

VARIABLES
    text,               \* latex_text
    pc,                 \* where the run is
    line_tokens,        \* tokenize_latex: what tokenize_content returned
    i,                  \* tokenize_latex: the loop's index into line_tokens, from 1
    block_stack,        \* tokenize_latex
    current_block,      \* tokenize_latex
    tokens,             \* tokenize_latex: the list it returns
    pushed,             \* history: per token of tokens, the id it appended to block_stack, 0 if none
    consolidated_tokens,
    j,                  \* translate_latex_document: the loop's index, from 1
    in_table,
    translated_tokens,
    log,                \* history: per iteration of the translation loop, what it did
    output              \* what translate_latex_document returns

vars == << text, pc, line_tokens, i, block_stack, current_block, tokens, pushed,
           consolidated_tokens, j, in_table, translated_tokens, log, output >>

tokenizer_vars == << line_tokens, i, block_stack, current_block, tokens, pushed >>

translation_vars == << consolidated_tokens, j, in_table, translated_tokens, log >>

\* The state at the call translate_latex_document(text), text one of docs
InitOn(docs) ==
    /\ text \in docs
    /\ pc = "tokenize_content"
    /\ line_tokens = << >>
    /\ i = 1
    /\ block_stack = << 0 >>
    /\ current_block = 0
    /\ tokens = << >>
    /\ pushed = << >>
    /\ consolidated_tokens = << >>
    /\ j = 1
    /\ in_table = FALSE
    /\ translated_tokens = << >>
    /\ log = << >>
    /\ output = << >>

Init == InitOn(Documents(Pieces, MaxPieces))

InitTables == InitOn(Documents(TablePieces, MaxPieces))

\* line 146
TokenizeContent ==
    /\ pc = "tokenize_content"
    /\ line_tokens' = tokenize_content(text, 1, 0)
    /\ pc' = "track"
    /\ UNCHANGED << text, i, block_stack, current_block, tokens, pushed, translation_vars, output >>

\* line 148
IsOpener(token) ==
    token.type \in {"structure", "environment"} /\ StartsWith(token.value, KwBegin)

\* line 151, without the guard on the stack
IsCloser(token) ==
    token.type = "environment" /\ StartsWith(token.value, KwEnd)

\* CanPop with the guard off by one: len(block_stack) > 0
CanPopRoot(stack) == Len(stack) > 0

\* line 151: len(block_stack) > 1
CanPop(stack) == Len(stack) > 1

\* StackAfter without the pop of line 152
StackAfterNoPop(stack, current, token) ==
    IF IsOpener(token) THEN Append(stack, current + 1) ELSE stack

\* lines 148-152: block_stack after the token
StackAfter(stack, current, token) ==
    IF IsOpener(token) THEN Append(stack, current + 1)
    ELSE IF IsCloser(token) /\ CanPop(stack) THEN Front(stack)
    ELSE stack

\* lines 149 and 153: current_block after the token
CurrentAfter(stack, current, token) ==
    IF IsOpener(token) THEN current + 1
    ELSE IF IsCloser(token) /\ CanPop(stack) THEN Last(Front(stack))
    ELSE current

\* One iteration of the loop of lines 147-156.  block_stack[-1] of an empty
\* list raises IndexError, which nothing catches.
TrackToken ==
    /\ pc = "track"
    /\ i <= Len(line_tokens)
    /\ LET token == line_tokens[i]
           stack == StackAfter(block_stack, current_block, token)
       IN  /\ block_stack' = stack
           /\ IF stack = << >>
              THEN /\ pc' = "raised"
                   /\ UNCHANGED << current_block, tokens, pushed, i >>
              ELSE /\ current_block' = CurrentAfter(block_stack, current_block, token)
                   /\ tokens' = Append(tokens, [token EXCEPT !.block = Last(stack)])
                   /\ pushed' = Append(pushed, IF IsOpener(token) THEN Last(stack) ELSE 0)
                   /\ i' = i + 1
                   /\ pc' = pc
    /\ UNCHANGED << text, line_tokens, translation_vars, output >>

\* line 158, and line 217 taking the result
TrackReturn ==
    /\ pc = "track"
    /\ i > Len(line_tokens)
    /\ pc' = "consolidate"
    /\ UNCHANGED << text, tokenizer_vars, translation_vars, output >>

\* lines 218-220
Consolidate ==
    /\ pc = "consolidate"
    /\ consolidated_tokens' = consolidate_text_tokens(tokens)
    /\ translated_tokens' = << >>
    /\ in_table' = FALSE
    /\ j' = 1
    /\ pc' = "translate"
    /\ UNCHANGED << text, tokenizer_vars, log, output >>

TableMarkers == { <<"t", "a", "b", "u", "l", "a", "r">>, <<"t", "a", "b", "l", "e">> }

\* lines 223-225: in_table after the token
InTableAfter(flag, token) ==
    IF token.type = "environment" /\ \E m \in TableMarkers : Contains(token.value, m)
    THEN Contains(token.value, KwBegin)
    ELSE flag

\* line 228
SentToTranslate(flag, token) ==
    ~flag \/ (flag /\ ~StartsWith(Strip(token.value), <<"\\">>))

\* lines 229-242: the tokens that take a translated text_block's place
Retokenized(token) ==
    LET translated_text == mock_translate(token.value)
        split_text == split_text_block(token.value, translated_text)
    IN  WordTokens(split_text, token.position[1], token)

\* One iteration of the loop of lines 222-246
TranslateToken ==
    /\ pc = "translate"
    /\ j <= Len(consolidated_tokens)
    /\ LET token == consolidated_tokens[j]
           flag == InTableAfter(in_table, token)
           sent == token.type = "text_block" /\ SentToTranslate(flag, token)
           out == IF sent THEN Retokenized(token) ELSE << token >>
       IN  /\ in_table' = flag
           /\ translated_tokens' = translated_tokens \o out
           /\ log' = Append(log, [in_table |-> flag, sent |-> sent, out |-> out])
    /\ j' = j + 1
    /\ UNCHANGED << text, pc, tokenizer_vars, consolidated_tokens, output >>

\* line 248
Detokenize ==
    /\ pc = "translate"
    /\ j > Len(consolidated_tokens)
    /\ output' = detokenize_latex(translated_tokens)
    /\ pc' = "done"
    /\ UNCHANGED << text, tokenizer_vars, translation_vars >>

Next ==
    \/ TokenizeContent
    \/ TrackToken
    \/ TrackReturn
    \/ Consolidate
    \/ TranslateToken
    \/ Detokenize

Spec == Init /\ [][Next]_vars

\* The same run on the documents put together from TablePieces
SpecTables == InitTables /\ [][Next]_vars

\* tokenize_latex(text) has returned tokens
Tokenized == pc \in {"consolidate", "translate", "done"}

----------------------------------------------------------------------------
\* The claims

\* C1 (exact round trip): once tokenize_latex has returned, the values of its
\* tokens, concatenated in stream order, are the input text character for
\* character.
C1_RoundTrip == Tokenized => detokenize_latex(tokens) = text

\* C2 (span partition): once tokenize_latex has returned, the spans of its
\* tokens in stream order are contiguous, the first starts at 0 and the last
\* ends at len(text): no character of the input lies outside every span.
C2_SpanPartition ==
    Tokenized =>
        /\ tokens = << >> => Len(text) = 0
        /\ tokens # << >> =>
              /\ tokens[1].position[1] = 0
              /\ Last(tokens).position[2] = Len(text)
        /\ \A k \in DOMAIN tokens : tokens[k].position[1] <= tokens[k].position[2]
        /\ \A k \in 1..(Len(tokens) - 1) : tokens[k].position[2] = tokens[k + 1].position[1]

\* The opener still open at the k-th token of toks, 0 when none is: the
\* nearest opener at or before k that no closer up to k has closed.  depth
\* counts the closers met on the way back whose openers are still to come.
RECURSIVE Enclosing(_, _, _)
Enclosing(toks, k, depth) ==
    IF k = 0 THEN 0
    ELSE IF IsOpener(toks[k])
         THEN IF depth = 0 THEN k ELSE Enclosing(toks, k - 1, depth - 1)
    ELSE IF IsCloser(toks[k]) THEN Enclosing(toks, k - 1, depth + 1)
    ELSE Enclosing(toks, k - 1, depth)

\* C3 (block nesting): every token stamped so far carries the id that the
\* nearest still-open enclosing \begin pushed, and 0 when no \begin is open; an
\* opener counts as inside the block it opens, a closer as outside the block
\* it closes; no opener pushes the root's id 0.
C3_BlockNesting ==
    \A k \in DOMAIN tokens :
        LET e == Enclosing(tokens, k, 0)
        IN  /\ tokens[k].block = IF e = 0 THEN 0 ELSE pushed[e]
            /\ IsOpener(tokens[k]) => pushed[k] > 0

\* C3's case: \begin{table}x\end{table}x has been tokenized, the opener and the
\* text inside carry 1, the closer and the text after it carry 0.
C3_Witness ==
    /\ Tokenized
    /\ Len(tokens) = 4
    /\ IsOpener(tokens[1]) /\ tokens[2].type = "text"
    /\ IsCloser(tokens[3]) /\ tokens[4].type = "text"
    /\ [k \in 1..4 |-> tokens[k].block] = <<1, 1, 0, 0>>

\* The tokens of toks whose spans lie in [from, to), in stream order
TokensWithin(toks, from, to) ==
    SelectSeq(toks, LAMBDA t : from <= t.position[1] /\ t.position[2] <= to)

\* C4 (argument expansion): for every match of the scan of text that is
\* classified structure or command and holds a "{", the tokens emitted for it
\* are the command name (the text before the first "{", kind unchanged), a
\* bracket "{", the tokens of the interior and a bracket "}"; their spans are
\* contiguous and cover the match's span; each value is the input at its span.
C4_ArgumentExpansion ==
    pc = "track" =>
        \A m \in Range(finditer(text)) :
            LET raw == Slice(text, m[1], m[2])
                em == TokensWithin(line_tokens, m[1], m[2])
            IN  (get_token_type(raw) \in {"structure", "command"} /\ Count(raw, "{") > 0) =>
                    /\ Len(em) >= 3
                    /\ em[1].type = get_token_type(raw)
                    /\ em[1].value = Slice(raw, 0, Find(raw, "{"))
                    /\ em[2].type = "bracket" /\ em[2].value = <<"{">>
                    /\ Last(em).type = "bracket" /\ Last(em).value = <<"}">>
                    /\ em[1].position[1] = m[1]
                    /\ Last(em).position[2] = m[2]
                    /\ \A k \in 1..(Len(em) - 1) : em[k].position[2] = em[k + 1].position[1]
                    /\ \A k \in DOMAIN em :
                          em[k].value = Slice(text, em[k].position[1], em[k].position[2])

\* The maximal runs <<a, b>> of consecutive text tokens of toks
TextRuns(toks) ==
    { r \in (DOMAIN toks) \X (DOMAIN toks) :
        /\ r[1] <= r[2]
        /\ \A k \in r[1]..r[2] : toks[k].type = "text"
        /\ r[1] = 1 \/ toks[r[1] - 1].type # "text"
        /\ r[2] = Len(toks) \/ toks[r[2] + 1].type # "text" }

\* Where the block of the run that starts at token a stands in the
\* consolidated stream: after the tokens that are no text and the runs before it
BlockIndex(toks, a) ==
    1 + Cardinality({k \in 1..(a - 1) : toks[k].type # "text"})
      + Cardinality({r \in TextRuns(toks) : r[2] < a})

\* The values of the tokens a..b of toks, each followed by one space but the last
RECURSIVE SpacedValues(_, _, _)
SpacedValues(toks, a, b) ==
    IF a = b THEN toks[a].value
    ELSE toks[a].value \o <<" ">> \o SpacedValues(toks, a + 1, b)

\* C5 (consolidation boundary): the consolidated stream holds no text token;
\* its tokens other than text_block are the tokens of the input other than
\* text, unchanged and in order; and each maximal run of text tokens has its
\* one text_block, in the run's place, whose value is the run's values joined
\* by single spaces, whose line is the first token's, and whose span goes from
\* the first token's start to the start of the token that ends the run, or to
\* the end of the last token when the stream ends in the run.
C5_Consolidation ==
    pc \in {"translate", "done"} =>
        /\ \A k \in DOMAIN consolidated_tokens : consolidated_tokens[k].type # "text"
        /\ SelectSeq(consolidated_tokens, LAMBDA t : t.type # "text_block")
              = SelectSeq(tokens, LAMBDA t : t.type # "text")
        /\ Cardinality({k \in DOMAIN consolidated_tokens :
                           consolidated_tokens[k].type = "text_block"})
              = Cardinality(TextRuns(tokens))
        /\ \A r \in TextRuns(tokens) :
              LET k == BlockIndex(tokens, r[1])
              IN  /\ k \in DOMAIN consolidated_tokens
                  /\ consolidated_tokens[k].type = "text_block"
                  /\ consolidated_tokens[k].value = SpacedValues(tokens, r[1], r[2])
                  /\ consolidated_tokens[k].line = tokens[r[1]].line
                  /\ consolidated_tokens[k].position =
                        << tokens[r[1]].position[1],
                           IF r[2] < Len(tokens) THEN tokens[r[2] + 1].position[1]
                           ELSE tokens[r[2]].position[2] >>

\* C5's case: a run of two text tokens that a token of another kind ends has
\* been consolidated.
C5_Witness ==
    /\ pc = "translate"
    /\ \E r \in TextRuns(tokens) :
          /\ r[2] > r[1]
          /\ r[2] < Len(tokens)
          /\ consolidated_tokens[BlockIndex(tokens, r[1])].type = "text_block"

\* C6 (translation re-split): for every text_block sent to translate, when the
\* translated text has as many words as the original, one text token per
\* translated word is emitted, in order; when the counts differ, one text
\* token is emitted, its value the whole translated string and its span the
\* text_block's span.
C6_Resplit ==
    \A k \in DOMAIN log :
        log[k].sent =>
            LET block == consolidated_tokens[k]
                translated == mock_translate(block.value)
                out == log[k].out
            IN  IF Len(Words(translated)) = Len(Words(block.value))
                THEN /\ Len(out) = Len(Words(translated))
                     /\ \A n \in DOMAIN out :
                           out[n].type = "text" /\ out[n].value = Words(translated)[n]
                ELSE /\ Len(out) = 1
                     /\ out[1].type = "text"
                     /\ out[1].value = translated
                     /\ out[1].position = block.position

\* Whether the k-th token of toks lies inside a still-open environment whose
\* \begin names a table marker: the opener that encloses it, or one further out
RECURSIVE InsideOpenTable(_, _)
InsideOpenTable(toks, k) ==
    LET e == Enclosing(toks, k, 0)
    IN  IF e = 0 THEN FALSE
        ELSE IF \E m \in TableMarkers : Contains(toks[e].value, m) THEN TRUE
        ELSE InsideOpenTable(toks, e - 1)

\* C7 (table suppression): when the translation loop reaches a text_block,
\* in_table is true exactly when the block lies inside a still-open table or
\* tabular environment; and a text_block whose stripped value begins with a
\* backslash is passed through unchanged exactly when it lies inside one.
C7_TableSuppression ==
    \A k \in DOMAIN log :
        consolidated_tokens[k].type = "text_block" =>
            /\ log[k].in_table <=> InsideOpenTable(consolidated_tokens, k)
            /\ StartsWith(Strip(consolidated_tokens[k].value), <<"\\">>) =>
                  (log[k].out = << consolidated_tokens[k] >>
                      <=> InsideOpenTable(consolidated_tokens, k))

\* The tracker is about to meet a closer with only the root on the stack
CloserAtRoot ==
    /\ pc = "track"
    /\ i <= Len(line_tokens)
    /\ IsCloser(line_tokens[i])
    /\ block_stack = << 0 >>

\* C8 (pop past the root): the tracker never raises, its stack is never empty
\* and has 0 at the bottom, and a closer met while the stack holds only the
\* root leaves the stack as it is and is stamped with block 0.
C8_PopPastRoot ==
    /\ [](pc # "raised" /\ block_stack # << >> /\ block_stack[1] = 0)
    /\ [][CloserAtRoot =>
            /\ block_stack' = block_stack
            /\ pc' = "track"
            /\ Len(tokens') = Len(tokens) + 1
            /\ Last(tokens').block = 0]_vars

\* C8's case: the first token of the stream was a closer, met at the root,
\* and the tracker has gone past it.
C8_Witness ==
    /\ pc = "track"
    /\ i = 2
    /\ IsCloser(tokens[1])
    /\ tokens[1].block = 0
    /\ block_stack = << 0 >>

\* C9 (monotonic counter): of two openers, the later one was given the
\* greater block id, so the counter never fell between them and no two
\* environments share an id.
C9_MonotonicCounter ==
    \A a, b \in DOMAIN tokens :
        (a < b /\ IsOpener(tokens[a]) /\ IsOpener(tokens[b])) => pushed[a] < pushed[b]

\* C10 (line numbering): the line of every token tokenize_latex returns is 1
\* plus the number of newlines of the input before the token's start.
C10_LineNumbering ==
    Tokenized =>
        \A k \in DOMAIN tokens :
            tokens[k].line = 1 + Count(Slice(text, 0, tokens[k].position[1]), "\n")

====
